---------------------------- MODULE Spec2Model ----------------------------
(***************************************************************************)
(* Model of src/system/tegu_ha.py: the high-availability controller that   *)
(* keeps one tegu active among the hosts of the standby list.              *)
(*                                                                         *)
(* Hostnames are strings, modelled as sequences of character codes so that *)
(* Python's string comparison is the lexicographic order on them.  The     *)
(* empty hostname '' is <<>>.  Shell command lines are sequences of        *)
(* tokens; running one splits it at ';' the way /bin/sh does.              *)
(***************************************************************************)
EXTENDS Integers, Sequences, FiniteSets, TLC

(* ------------------------------ bounds -------------------------------- *)
\* checkpoint timestamps and clock readings are drawn from 0..MaxTs
MaxTs == 2
\* the quiet period is measured up to MaxQuiet seconds
MaxQuiet == 20
\* standby lists have up to MaxList lines
MaxList == 3
\* listing lines have up to MaxFields whitespace-separated fields
MaxFields == 7

(* ----------------------- configuration constants ---------------------- *)
HEARTBEAT_SEC == 5
PRI_WAIT_SEC == 5

\* hostnames "a", "aa", "b"
HostA == <<1>>
HostAA == <<1, 1>>
HostB == <<2>>
Hosts == {HostA, HostAA, HostB}
NoHost == <<>>
localhost == <<0>>

\* a token of command output that is not a number / not a date or time
Junk == -1

(* --------------------------- string helpers --------------------------- *)
\* Python's a < b on strings
StrLess(a, b) ==
    \E i \in 1..Len(b) :
        /\ i <= Len(a) + 1
        /\ \A j \in 1..(i - 1) : a[j] = b[j]
        /\ (i = Len(a) + 1 \/ a[i] < b[i])

(* ------------------------ results of a call -------------------------- *)
\* A returned value or an escaping exception
Ret(v) == [exc |-> "", ret |-> v]
Raise(e) == [exc |-> e, ret |-> FALSE]
RaiseInt(e) == [exc |-> e, ret |-> 0]

(* -------------------------- the listen port --------------------------- *)
\* TEGU_PORT = os.getenv('TEGU_PORT', 29444): the built-in default is a
\* number, a value taken from the environment is a string
DefaultPort == [type |-> "int", val |-> 29444]
EnvPort == [type |-> "str", val |-> 29444]

(* ------------------------- shell command lines ------------------------ *)
SshTok(h) == [t |-> "ssh", h |-> h]
CmdTok(c) == [t |-> "cmd", c |-> c]
SepTok == [t |-> "sep"]

SSH_CMD(host) == <<SshTok(host)>>

DEACTIVATE_CMD == <<CmdTok("standby_on"), SepTok, CmdTok("killall_tegu"),
                    SepTok, CmdTok("killall_agent")>>

ACTIVATE_CMD == <<CmdTok("standby_off"), SepTok, CmdTok("start_tegu"),
                  SepTok, CmdTok("start_agent")>>

ssh_cmd(host) == IF host # NoHost THEN SSH_CMD(host) ELSE <<>>

\* /bin/sh -c line, run on node here: the list of simple commands of the
\* line, each with the node it executes on and whether it is sent there
\* through ssh (also when the ssh target is the name of this node).  The ';' belongs to the local
\* shell: it ends the simple command, and with it the reach of an ssh
\* prefix, which sends only the rest of its own simple command to the
\* ssh target.
Largest(S) == CHOOSE x \in S : \A y \in S : y <= x

ShellSshs(line, i) ==
    LET seps == {j \in 1..(i - 1) : line[j].t = "sep"}
        from == IF seps = {} THEN 0 ELSE Largest(seps)
    IN  {j \in (from + 1)..(i - 1) : line[j].t = "ssh"}

ShellSite(line, here, i) ==
    LET sshs == ShellSshs(line, i)
    IN  IF sshs = {} THEN here ELSE line[Largest(sshs)].h

ShellSteps(line, here) ==
    LET cmds == {i \in 1..Len(line) : line[i].t = "cmd"}
        nth(k) == CHOOSE i \in cmds :
                      Cardinality({j \in cmds : j <= i}) = k
    IN  [k \in 1..Cardinality(cmds) |->
            [at |-> ShellSite(line, here, nth(k)), c |-> line[nth(k)].c,
             ssh |-> ShellSshs(line, nth(k)) # {}]]

(* --------------------------- service state ---------------------------- *)
\* The state of the tegu installation of every host: is the tegu process
\* running (it then answers the ping API), is the standby file present, is
\* tegu_agent running.  svc is a record of three functions on hostnames.

\* one simple command st.c executed on host st.at; reach is FALSE when the
\* ssh channel is down: a command sent through ssh then does not run and
\* ssh exits with 255.  Gives the new state and exit status.
ExecStep(s, st, reach) ==
    LET at == st.at
        c == st.c
    IN
    IF st.ssh /\ ~reach THEN [svc |-> s, rc |-> 255]
    ELSE IF c = "standby_on" THEN
        [svc |-> [s EXCEPT !.standby[at] = TRUE], rc |-> 0]
    ELSE IF c = "standby_off" THEN
        [svc |-> [s EXCEPT !.standby[at] = FALSE], rc |-> 0]
    ELSE IF c = "killall_tegu" THEN
        [svc |-> [s EXCEPT !.tegu[at] = FALSE],
         rc |-> IF s.tegu[at] THEN 0 ELSE 1]
    ELSE IF c = "killall_agent" THEN
        [svc |-> [s EXCEPT !.agent[at] = FALSE],
         rc |-> IF s.agent[at] THEN 0 ELSE 1]
    ELSE IF c = "start_tegu" THEN
        [svc |-> [s EXCEPT !.tegu[at] = TRUE], rc |-> 0]
    ELSE \* start_agent
        [svc |-> [s EXCEPT !.agent[at] = TRUE], rc |-> 0]

\* the steps of a command line in order; the status is the last step's
ExecSteps(s, steps, reach) ==
    LET after[k \in 0..Len(steps)] ==
            IF k = 0 THEN [svc |-> s, rc |-> 0]
            ELSE ExecStep(after[k - 1].svc, steps[k], reach)
    IN  after[Len(steps)]

\* subprocess.check_call(line, shell=True) on node here
check_call(s, steps, reach) == ExecSteps(s, steps, reach)

\* the command lines deactivate_tegu and activate_tegu build, as the shell
\* of node here takes them apart
DeactivateSteps ==
    [here \in Hosts, host \in Hosts \cup {NoHost} |->
        ShellSteps(ssh_cmd(host) \o DEACTIVATE_CMD, here)]

\* the command line of activate_tegu being the stop command line
ActivateSteps_stop ==
    [here \in Hosts, host \in Hosts \cup {NoHost} |->
        ShellSteps(ssh_cmd(host) \o DEACTIVATE_CMD, here)]

ActivateSteps ==
    [here \in Hosts, host \in Hosts \cup {NoHost} |->
        ShellSteps(ssh_cmd(host) \o ACTIVATE_CMD, here)]

deactivate_tegu(s, here, host, reach) ==
    LET r == check_call(s, DeactivateSteps[here, host], reach)
    IN  [svc |-> r.svc, ret |-> (r.rc = 0)]

activate_tegu(s, here, host, reach) ==
    LET r == check_call(s, ActivateSteps[here, host], reach)
    IN  [svc |-> r.svc, ret |-> (r.rc = 0)]

\* the ping of host from node here; answered is FALSE when the probe times
\* out or the reply is malformed.  The command is built with %d for the
\* port before the try: a port that is a string raises TypeError and no
\* command runs.
is_active(s, here, host, answered, port) ==
    LET target == IF host = localhost THEN here ELSE host
    IN  IF port.type # "int" THEN Raise("TypeError")
        ELSE Ret(s.tegu[target] /\ answered)

(* ------------------------ conflict resolution ------------------------- *)
\* Output of a command run with check_output: rc is the exit status, out
\* the output.  For `date +%s` out is a number or Junk; for the checkpoint
\* listings out is the line as a sequence of whitespace-separated fields
\* (<<>> is the empty output), a date or time field being a number of
\* seconds or Junk.

\* extract_dt: the timestamp, or the exception that escapes
extract_dt(str, c1, c2) ==
    LET toks == str IN
    IF Len(toks) <= c2 THEN
        \* toks[c2] raises IndexError; the handler then formats toks[c1]
        \* and ttoks[0], and ttoks was never bound
        IF Len(toks) <= c1 THEN RaiseInt("IndexError")
        ELSE RaiseInt("UnboundLocalError")
    ELSE IF toks[c1 + 1] = Junk \/ toks[c2 + 1] = Junk THEN Ret(0)
    ELSE Ret(toks[c1 + 1] + toks[c2 + 1])

\* the comparison without the hostname tie-break
Compare_notie(ts_r, ts_l, skew, host, fqdn) == ts_r + skew > ts_l

\* the comparison with >= for >
Compare_ge(ts_r, ts_l, skew, host, fqdn) == ts_r + skew >= ts_l

\* the comparison of lines 169-170
Compare(ts_r, ts_l, skew, host, fqdn) ==
    \/ ts_r + skew > ts_l
    \/ (ts_r + skew = ts_l /\ StrLess(host, fqdn))

\* should_be_active pulling the local checkpoints before the remote ones
should_be_active_localfirst(host, fqdn, in) ==
    IF ~in.sync_l THEN Ret(TRUE)
    ELSE IF ~in.sync_r THEN Ret(FALSE)
    ELSE IF in.date_r.rc # 0 THEN Ret(FALSE)
    ELSE IF in.date_r.out = Junk THEN Raise("ValueError")
    ELSE IF in.date_l.rc # 0 THEN Ret(FALSE)
    ELSE IF in.date_l.out = Junk THEN Raise("ValueError")
    ELSE IF in.ts_r_s.rc # 0 \/ in.ts_l_s.rc # 0 THEN Ret(FALSE)
    ELSE IF in.ts_r_s.out = <<>> \/ in.ts_l_s.out = <<>>
         THEN Raise("NameError")
    ELSE LET ts_r == extract_dt(in.ts_r_s.out, 3, 4)
             ts_l == extract_dt(in.ts_l_s.out, 5, 6)
         IN  IF ts_r.exc # "" THEN Raise(ts_r.exc)
             ELSE IF ts_l.exc # "" THEN Raise(ts_l.exc)
             ELSE Ret(Compare(ts_r.ret, ts_l.ret,
                              in.date_l.out - in.date_r.out, host, fqdn))

\* should_be_active(host) on node fqdn.  in holds what the commands of
\* this call produce: sync_r, sync_l (get_checkpoint results), date_r,
\* date_l, ts_r_s, ts_l_s (check_output results).
\* Gives Ret(TRUE), Ret(FALSE) or the exception that escapes.
should_be_active(host, fqdn, in) ==
    IF ~in.sync_r THEN Ret(FALSE)
    ELSE IF ~in.sync_l THEN Ret(TRUE)
    ELSE IF in.date_r.rc # 0 THEN Ret(FALSE)
    ELSE IF in.date_r.out = Junk THEN Raise("ValueError")
    ELSE IF in.date_l.rc # 0 THEN Ret(FALSE)
    ELSE IF in.date_l.out = Junk THEN Raise("ValueError")
    ELSE LET time_r == in.date_r.out
             time_l == in.date_l.out
             skew == time_l - time_r
         IN
         IF in.ts_r_s.rc # 0 THEN Ret(FALSE)
         ELSE IF in.ts_l_s.rc # 0 THEN Ret(FALSE)
         ELSE IF in.ts_r_s.out = <<>> \/ in.ts_l_s.out = <<>>
              THEN Raise("NameError")
         ELSE LET ts_r == extract_dt(in.ts_r_s.out, 3, 4) IN
              IF ts_r.exc # "" THEN Raise(ts_r.exc)
              ELSE LET ts_l == extract_dt(in.ts_l_s.out, 5, 6) IN
                   IF ts_l.exc # "" THEN Raise(ts_l.exc)
                   ELSE Ret(Compare(ts_r.ret, ts_l.ret, skew, host, fqdn))

\* the commands one call of should_be_active runs, in the order it runs
\* them: it stops at the first return or exception
should_be_active_calls(in) ==
    LET upto(k) == SubSeq(<<"sync_r", "sync_l", "date_r", "date_l",
                            "ts_r_s", "ts_l_s", "extract_r", "extract_l",
                            "compare">>, 1, k)
    IN
    IF ~in.sync_r THEN upto(1)
    ELSE IF ~in.sync_l THEN upto(2)
    ELSE IF in.date_r.rc # 0 \/ in.date_r.out = Junk THEN upto(3)
    ELSE IF in.date_l.rc # 0 \/ in.date_l.out = Junk THEN upto(4)
    ELSE IF in.ts_r_s.rc # 0 THEN upto(5)
    ELSE IF in.ts_l_s.rc # 0 THEN upto(6)
    ELSE IF in.ts_r_s.out = <<>> \/ in.ts_l_s.out = <<>> THEN upto(6)
    ELSE IF extract_dt(in.ts_r_s.out, 3, 4).exc # "" THEN upto(7)
    ELSE IF extract_dt(in.ts_l_s.out, 5, 6).exc # "" THEN upto(8)
    ELSE upto(9)

(* ------------------------------- state -------------------------------- *)
VARIABLES
    standby_list,   \* the lines of /etc/tegu/standby_list
    svc,            \* tegu / standby file / agent of every host
    ckpt,           \* per host: timestamp of its most recent checkpoint
    clock,          \* per host: what `date +%s` prints there
    pc,             \* per host: where its tegu_ha process is
    priority,       \* per host: main's priority
    peers,          \* per host: the list main passes to main_loop
    priority_wait,  \* per host: main_loop's flag
    i_am_active,    \* per host: main_loop's local
    any_active,     \* per host: main_loop's local
    idx,            \* per host: position of the for loop in peers
    slept,          \* per host: length of the last time.sleep
    cyc,            \* per host: what the current cycle has done so far
    prev,           \* per host: summary of the cycle before
    quiet,          \* per host: seconds since the first of the unbroken
                    \*   run of polls that found nothing active, -1 if none
    TEGU_PORT,      \* per host: the port its tegu_ha process was loaded with
    host_active,    \* per host: main_loop's local
    sh,             \* per host: the command line its check_call is running:
                    \*   the simple commands still to run and the exit
                    \*   status of the last one that ran
    cmp             \* the one call of SpecCmp, SpecResolve, SpecCtl and
                    \*   SpecExtract, with its arguments and result

vars == <<standby_list, svc, ckpt, clock, pc, priority, peers, priority_wait,
          i_am_active, any_active, idx, slept, cyc, prev, quiet, TEGU_PORT,
          host_active, sh, cmp>>

loopvars == <<priority_wait, i_am_active, any_active, idx, slept, cyc, prev,
              quiet, host_active, sh>>

Range(f) == {f[i] : i \in DOMAIN f}
Nodes == Range(standby_list)

\* ---- helpers on lists
RECURSIVE IndexOf(_, _, _)
IndexOf(list, x, i) ==
    IF i > Len(list) THEN -1
    ELSE IF list[i] = x THEN i - 1
    ELSE IndexOf(list, x, i + 1)

\* list.index counting from 1
index_from1(list, x) ==
    IF IndexOf(list, x, 1) = -1 THEN -1 ELSE IndexOf(list, x, 1) + 1

\* list.index(x): 0-based position of the first x, -1 for ValueError
index(list, x) == IndexOf(list, x, 1)

\* list.remove taking out every x
remove_all(list, x) == SelectSeq(list, LAMBDA y : y # x)

\* list.remove(x): the list without its first x
remove(list, x) ==
    LET k == index(list, x) + 1
    IN  [i \in 1..(Len(list) - 1) |-> IF i < k THEN list[i] ELSE list[i + 1]]

\* ---- the record of one cycle
\* pw0: priority_wait when the cycle began; probes: the is_active calls
\* with their results; splits: the should_be_active calls with what their
\* commands produced and their results; cmds: the activate / deactivate
\* calls
NoCycle == [pw0 |-> FALSE, probes |-> <<>>, splits |-> <<>>, cmds |-> <<>>]
NoPrev == [found |-> -1, pw0 |-> FALSE]

RECURSIVE CountTrue(_)
CountTrue(ps) ==
    IF ps = <<>> THEN 0
    ELSE (IF Head(ps).res THEN 1 ELSE 0) + CountTrue(Tail(ps))

\* how many hosts the poll of the cycle found active
Found(c) == CountTrue(c.probes)

\* ---- what the commands of should_be_active produce when nothing fails
Ok(out) == [rc |-> 0, out |-> out]
Failed == [rc |-> 1, out |-> Junk]

\* tar -t -v --full-time line: mode owner size date time name
TarLine(ts) == <<Junk, Junk, Junk, ts, 0, Junk>>
\* ls --full-time line: mode links owner group size date time zone name
LsLine(ts) == <<Junk, Junk, Junk, Junk, Junk, ts, 0, Junk, Junk>>

GoodInputs(ts_r, ts_l, time_r, time_l) ==
    [sync_r |-> TRUE, sync_l |-> TRUE,
     date_r |-> Ok(time_r), date_l |-> Ok(time_l),
     ts_r_s |-> Ok(TarLine(ts_r)), ts_l_s |-> Ok(LsLine(ts_l))]

\* ---- what they produce when something fails: the good outputs with one
\* command failing or printing something else
FaultyInputs(g) ==
    { [g EXCEPT !.sync_r = FALSE],
      [g EXCEPT !.sync_l = FALSE],
      [g EXCEPT !.sync_r = FALSE, !.sync_l = FALSE],
      [g EXCEPT !.date_r = Failed],
      [g EXCEPT !.date_r = Ok(Junk)],
      [g EXCEPT !.date_l = Failed],
      [g EXCEPT !.date_l = Ok(Junk)],
      [g EXCEPT !.ts_r_s = Failed],
      [g EXCEPT !.ts_l_s = Failed],
      [g EXCEPT !.ts_r_s = Ok(<<>>)],
      [g EXCEPT !.ts_l_s = Ok(<<>>)],
      [g EXCEPT !.ts_r_s = Ok(<<Junk, Junk>>)],
      [g EXCEPT !.ts_l_s = Ok(<<Junk, Junk, Junk, Junk, Junk, Junk>>)],
      [g EXCEPT !.ts_r_s = Ok(<<Junk, Junk, Junk, Junk, 0, Junk>>)],
      [g EXCEPT !.ts_l_s = Ok(<<Junk, Junk, Junk, Junk, Junk, 0, Junk, Junk, Junk>>)] }

\* the outputs one call of should_be_active(host) on node n can see;
\* F says whether commands may fail
SplitInputs(n, host, F) ==
    LET g == GoodInputs(ckpt[host], ckpt[n], clock[host], clock[n])
    IN  IF F THEN {g} \cup FaultyInputs(g) ELSE {g}

Answers(F) == IF F THEN BOOLEAN ELSE {TRUE}

Min(a, b) == IF a < b THEN a ELSE b

(* ------------------------------- main --------------------------------- *)
\* main(): find this node in the standby list, or exit(1)
Main(n) ==
    /\ pc[n] = "main"
    /\ LET k == index(standby_list, n) IN
       IF k = -1
       THEN /\ pc' = [pc EXCEPT ![n] = "exit"]
            /\ UNCHANGED <<priority, peers>>
       ELSE /\ priority' = [priority EXCEPT ![n] = k]
            /\ peers' = [peers EXCEPT ![n] = remove(standby_list, n)]
            /\ pc' = [pc EXCEPT ![n] = "sleep"]
    /\ UNCHANGED <<standby_list, svc, ckpt, clock, loopvars, TEGU_PORT, cmp>>

(* ----------------------------- main_loop ------------------------------ *)
\* The steps of main_loop take two switches: F, whether probes and
\* commands may fail, and T, whether the step is written to the history
\* variables slept, cyc, prev and quiet (which main_loop never reads).
\* A call of activate_tegu or deactivate_tegu is written to cyc when its
\* command line is handed to the shell.
Trace(T, new, old) == IF T THEN new ELSE old

\* the sleep always one heartbeat
SleepTime_heartbeat(pw, prio) == HEARTBEAT_SEC

\* lines 217-222: how long the loop sleeps
SleepTime(pw, prio) == IF ~pw THEN HEARTBEAT_SEC ELSE PRI_WAIT_SEC * prio

\* the split-brain test without the look at this node
SplitBrain_any(i_am, host_act) == host_act

\* the split-brain test without the look at the peer
SplitBrain_self(i_am, host_act) == i_am

\* line 235: the split-brain test
SplitBrain(i_am, host_act) == i_am /\ host_act

\* i_am_active left as it was
SelfAfterSplit_keep(i_am, host_act) == i_am

\* line 241: i_am_active after should_be_active said host_act
SelfAfterSplit(i_am, host_act) == IF host_act THEN FALSE ELSE i_am

\* any_active taken from the last peer alone
TrackActive_last(any, host_act) == host_act

\* line 247: track that at least one tegu is active
TrackActive(any, host_act) == any \/ host_act

\* priority 0 waits like the others
StartNow_waited(pw, prio) == pw

\* line 251: start tegu here now rather than wait
StartNow(pw, prio) == pw \/ prio = 0

\* top of the while loop: the sleep; a new cycle begins after it
Sleep(n, T) ==
    /\ pc[n] = "sleep"
    /\ LET d == SleepTime(priority_wait[n], priority[n])
       IN  /\ slept' = [slept EXCEPT ![n] = Trace(T, d, @)]
           /\ quiet' = [quiet EXCEPT ![n] =
                          Trace(T, IF @ < 0 THEN -1
                                   ELSE Min(@ + d, MaxQuiet), @)]
    /\ prev' = [prev EXCEPT ![n] =
                  Trace(T, IF cyc[n].probes = <<>> THEN NoPrev
                           ELSE [found |-> Found(cyc[n]),
                                 pw0 |-> cyc[n].pw0], @)]
    /\ cyc' = [cyc EXCEPT ![n] =
                 Trace(T, [NoCycle EXCEPT !.pw0 = priority_wait[n]], @)]
    /\ pc' = [pc EXCEPT ![n] = "poll"]
    /\ UNCHANGED <<standby_list, svc, ckpt, clock, priority, peers,
                   priority_wait, i_am_active, any_active, idx, TEGU_PORT,
                   host_active, sh, cmp>>

\* the for loop left after its first peer
AfterPeer_first(n, i) == "decide"

\* where the for loop goes after the peer at position i
AfterPeer(n, i) == IF i >= Len(peers[n]) THEN "decide" ELSE "peer"

\* no command line is running
NoShell == [steps |-> <<>>, rc |-> 0]

\* check_call has just handed the command line to the shell
Shell(steps) == [steps |-> steps, rc |-> 0]

\* i_am_active = is_active(); any_active = i_am_active
ProbeSelf(n, F, T) ==
    /\ pc[n] = "poll"
    /\ \E answered \in Answers(F) :
         LET a == is_active(svc, n, localhost, answered, TEGU_PORT[n]) IN
         IF a.exc # ""
         THEN \* the exception leaves main_loop and main
              /\ pc' = [pc EXCEPT ![n] = "crashed"]
              /\ UNCHANGED <<i_am_active, any_active, cyc, idx>>
         ELSE /\ i_am_active' = [i_am_active EXCEPT ![n] = a.ret]
              /\ any_active' = [any_active EXCEPT ![n] = a.ret]
              /\ cyc' = [cyc EXCEPT ![n].probes =
                           Trace(T, Append(@, [host |-> localhost,
                                               res |-> a.ret]), @)]
              /\ idx' = [idx EXCEPT ![n] = 1]
              /\ pc' = [pc EXCEPT ![n] = AfterPeer(n, 0)]
    /\ UNCHANGED <<standby_list, svc, ckpt, clock, priority, peers,
                   priority_wait, slept, prev, quiet, TEGU_PORT, host_active,
                   sh, cmp>>

\* one iteration of the for loop up to the split-brain test
ProbePeer(n, F, T) ==
    /\ pc[n] = "peer"
    /\ LET host == peers[n][idx[n]] IN
       IF host = n
       THEN \* continue
            /\ idx' = [idx EXCEPT ![n] = @ + 1]
            /\ pc' = [pc EXCEPT ![n] = AfterPeer(n, idx[n])]
            /\ UNCHANGED <<any_active, cyc, host_active>>
       ELSE \E answered \in Answers(F) :
            LET a == is_active(svc, n, host, answered, TEGU_PORT[n]) IN
            IF a.exc # ""
            THEN /\ pc' = [pc EXCEPT ![n] = "crashed"]
                 /\ UNCHANGED <<any_active, cyc, host_active, idx>>
            ELSE
            /\ host_active' = [host_active EXCEPT ![n] = a.ret]
            /\ cyc' = [cyc EXCEPT ![n].probes =
                         Trace(T, Append(@, [host |-> host,
                                             res |-> a.ret]), @)]
            /\ IF SplitBrain(i_am_active[n], a.ret)
               THEN /\ pc' = [pc EXCEPT ![n] = "split"]
                    /\ UNCHANGED <<any_active, idx>>
               ELSE /\ any_active' = [any_active EXCEPT ![n] =
                                        TrackActive(@, a.ret)]
                    /\ idx' = [idx EXCEPT ![n] = @ + 1]
                    /\ pc' = [pc EXCEPT ![n] = AfterPeer(n, idx[n])]
    /\ UNCHANGED <<standby_list, svc, ckpt, clock, priority, peers,
                   priority_wait, i_am_active, slept, prev, quiet, TEGU_PORT,
                   sh, cmp>>

\* lines 237-244 up to the call of check_call: host_active =
\* should_be_active(host), and the deactivate command line for this node
\* or for the peer is handed to the shell.  should_be_active reads nothing
\* that another process of the model changes, so its commands are one
\* step; the commands of the deactivate line are steps of their own.
Split(n, F, T) ==
    /\ pc[n] = "split"
    /\ LET host == peers[n][idx[n]] IN
       \E in \in SplitInputs(n, host, F) :
       \E r \in {should_be_active(host, n, in)} :
         IF r.exc # ""
         THEN \* the exception leaves main_loop and main
              /\ pc' = [pc EXCEPT ![n] = "crashed"]
              /\ cyc' = [cyc EXCEPT ![n].splits =
                           Trace(T, Append(@, [host |-> host, res |-> r,
                                               in |-> in]), @)]
              /\ UNCHANGED <<host_active, sh>>
         ELSE LET target == IF r.ret THEN NoHost ELSE host
              IN
              /\ host_active' = [host_active EXCEPT ![n] = r.ret]
              /\ sh' = [sh EXCEPT ![n] = Shell(DeactivateSteps[n, target])]
              /\ cyc' = [cyc EXCEPT
                           ![n].splits =
                               Trace(T, Append(@, [host |-> host,
                                                   res |-> r,
                                                   in |-> in]), @),
                           ![n].cmds =
                               Trace(T, Append(@, [op |-> "deactivate",
                                                   host |-> target]), @)]
              /\ pc' = [pc EXCEPT ![n] = "deactivate"]
    /\ UNCHANGED <<standby_list, svc, ckpt, clock, priority, peers,
                   priority_wait, i_am_active, any_active, idx, slept, prev,
                   quiet, TEGU_PORT, cmp>>

\* the shell of node n runs the next simple command of its command line
Command(n, F) ==
    /\ pc[n] \in {"deactivate", "activate"}
    /\ sh[n].steps # <<>>
    /\ \E reach \in Answers(F) :
         LET r == ExecStep(svc, Head(sh[n].steps), reach) IN
         /\ svc' = r.svc
         /\ sh' = [sh EXCEPT ![n] = [steps |-> Tail(sh[n].steps),
                                     rc |-> r.rc]]
    /\ UNCHANGED <<standby_list, ckpt, clock, pc, priority, peers,
                   priority_wait, i_am_active, any_active, idx, slept, cyc,
                   prev, quiet, TEGU_PORT, host_active, cmp>>

\* deactivate_tegu returns, its result is dropped; lines 241 and 247
Deactivated(n) ==
    /\ pc[n] = "deactivate"
    /\ sh[n].steps = <<>>
    /\ i_am_active' = [i_am_active EXCEPT ![n] =
                         SelfAfterSplit(@, host_active[n])]
    /\ any_active' = [any_active EXCEPT ![n] =
                        TrackActive(@, host_active[n])]
    /\ idx' = [idx EXCEPT ![n] = @ + 1]
    /\ pc' = [pc EXCEPT ![n] = AfterPeer(n, idx[n])]
    /\ UNCHANGED <<standby_list, svc, ckpt, clock, priority, peers,
                   priority_wait, slept, cyc, prev, quiet, TEGU_PORT,
                   host_active, sh, cmp>>

\* after the for loop: `if not any_active`, up to the call of check_call
Decide(n, T) ==
    /\ pc[n] = "decide"
    /\ IF ~any_active[n]
       THEN IF StartNow(priority_wait[n], priority[n])
            THEN /\ priority_wait' = [priority_wait EXCEPT ![n] = FALSE]
                 /\ sh' = [sh EXCEPT ![n] = Shell(ActivateSteps[n, NoHost])]
                 /\ cyc' = [cyc EXCEPT ![n].cmds =
                              Trace(T, Append(@, [op |-> "activate",
                                                  host |-> NoHost]), @)]
                 /\ pc' = [pc EXCEPT ![n] = "activate"]
            ELSE /\ priority_wait' = [priority_wait EXCEPT ![n] = TRUE]
                 /\ pc' = [pc EXCEPT ![n] = "sleep"]
                 /\ UNCHANGED <<sh, cyc>>
       ELSE /\ pc' = [pc EXCEPT ![n] = "sleep"]
            /\ UNCHANGED <<priority_wait, sh, cyc>>
    /\ quiet' = [quiet EXCEPT ![n] =
                   Trace(T, IF Found(cyc[n]) # 0 THEN -1
                            ELSE IF @ < 0 THEN 0 ELSE @, @)]
    /\ UNCHANGED <<standby_list, svc, ckpt, clock, priority, peers,
                   i_am_active, any_active, idx, slept, prev, TEGU_PORT,
                   host_active, cmp>>

\* activate_tegu returns, its result is dropped; the loop starts over
Activated(n) ==
    /\ pc[n] = "activate"
    /\ sh[n].steps = <<>>
    /\ pc' = [pc EXCEPT ![n] = "sleep"]
    /\ UNCHANGED <<standby_list, svc, ckpt, clock, priority, peers,
                   loopvars, TEGU_PORT, cmp>>

(* --------------------------- the environment -------------------------- *)
\* tegu on some host stops by itself, or is started by somebody else
EnvStop(h) ==
    /\ svc.tegu[h]
    /\ svc' = [svc EXCEPT !.tegu[h] = FALSE]
    /\ UNCHANGED <<standby_list, ckpt, clock, pc, priority, peers, loopvars,
                   TEGU_PORT, cmp>>

EnvStart(h) ==
    /\ ~svc.tegu[h]
    /\ svc' = [svc EXCEPT !.tegu[h] = TRUE]
    /\ UNCHANGED <<standby_list, ckpt, clock, pc, priority, peers, loopvars,
                   TEGU_PORT, cmp>>

(* --------------------------- initial states --------------------------- *)
NoCmp == [a |-> NoHost, b |-> NoHost, tsA |-> 0, tsB |-> 0,
          clkA |-> 0, clkB |-> 0, done |-> FALSE,
          onA |-> Ret(FALSE), onB |-> Ret(FALSE)]

\* a consistent installation: the agent runs where tegu runs, the standby
\* file is where it does not
Installed(tegu) ==
    [tegu |-> tegu, agent |-> tegu, standby |-> [h \in Hosts |-> ~tegu[h]]]

\* the hosts of ctl have just started tegu_ha
InitProcs(ctl) ==
    /\ pc = [h \in Hosts |-> IF h \in ctl THEN "main" ELSE "off"]
    /\ priority = [h \in Hosts |-> 0]
    /\ peers = [h \in Hosts |-> <<>>]
    /\ priority_wait = [h \in Hosts |-> FALSE]
    /\ i_am_active = [h \in Hosts |-> FALSE]
    /\ any_active = [h \in Hosts |-> FALSE]
    /\ idx = [h \in Hosts |-> 1]
    /\ slept = [h \in Hosts |-> 0]
    /\ cyc = [h \in Hosts |-> NoCycle]
    /\ prev = [h \in Hosts |-> NoPrev]
    /\ quiet = [h \in Hosts |-> -1]
    /\ host_active = [h \in Hosts |-> FALSE]
    /\ sh = [h \in Hosts |-> NoShell]

\* standby lists of two and of three hosts
PairLists == {<<x, y>> : x, y \in Hosts} \ {<<x, x>> : x \in Hosts}
TripleLists == {<<HostAA, HostB, HostA>>}

(* ---- SpecSplit: two nodes, both active, both running tegu_ha, nothing
        fails ---- *)
InitSplit ==
    /\ standby_list \in PairLists
    /\ svc = Installed([h \in Hosts |-> h \in Nodes])
    /\ ckpt \in [Hosts -> 0..MaxTs]
    /\ clock \in [Hosts -> 0..1]
    /\ \A h \in Hosts \ Nodes : ckpt[h] = 0 /\ clock[h] = 0
    /\ InitProcs(Nodes)
    /\ TEGU_PORT = [h \in Hosts |-> DefaultPort]
    /\ cmp = NoCmp

NodeStep(n, F, T) ==
    \/ Main(n)
    \/ Sleep(n, T)
    \/ ProbeSelf(n, F, T)
    \/ ProbePeer(n, F, T)
    \/ Split(n, F, T)
    \/ Command(n, F)
    \/ Deactivated(n)
    \/ Decide(n, T)
    \/ Activated(n)

NextSplit == \E n \in Hosts : NodeStep(n, FALSE, TRUE)

SpecSplit == InitSplit /\ [][NextSplit]_vars

(* ---- SpecCluster: three nodes all running tegu_ha, any of them active,
        nothing fails ---- *)
InitCluster ==
    /\ standby_list \in TripleLists
    /\ \E tegu \in [Hosts -> BOOLEAN] : svc = Installed(tegu)
    /\ ckpt = [h \in Hosts |-> 1]
    /\ clock = [h \in Hosts |-> IF h = HostAA THEN 1 ELSE 0]
    /\ InitProcs(Nodes)
    /\ TEGU_PORT = [h \in Hosts |-> DefaultPort]
    /\ cmp = NoCmp

NextCluster == \E n \in Hosts : NodeStep(n, FALSE, FALSE)

SpecCluster == InitCluster /\ [][NextCluster]_vars

FairCluster == SpecCluster /\ \A n \in Hosts : WF_vars(NodeStep(n, FALSE, FALSE))

(* ---- SpecLoop: one node runs tegu_ha, with the built-in port or with
        TEGU_PORT set in its environment; probes and commands may fail
        and tegu comes and goes on every host ---- *)
InitLoop ==
    /\ standby_list = <<HostB, HostAA, HostA>>
    /\ svc = Installed([h \in Hosts |-> FALSE])
    /\ ckpt \in {[h \in Hosts |-> 1], [h \in Hosts |-> Len(h)]}
    /\ clock = [h \in Hosts |-> 0]
    /\ \E n \in Hosts :
         /\ InitProcs({n})
         /\ TEGU_PORT \in {[h \in Hosts |-> DefaultPort],
                            [h \in Hosts |-> IF h = n THEN EnvPort
                                                      ELSE DefaultPort]}
    /\ cmp = NoCmp

NextLoop ==
    \/ \E n \in Hosts : NodeStep(n, TRUE, TRUE)
    \/ \E h \in Hosts : EnvStop(h)
    \/ \E h \in Hosts : EnvStart(h)

SpecLoop == InitLoop /\ [][NextLoop]_vars

(* ---- SpecCmp: the comparison, evaluated by two nodes a and b about
        each other, with the same two checkpoints and the same two
        clocks ---- *)
InitCmp ==
    /\ standby_list = <<>>
    /\ svc = Installed([h \in Hosts |-> FALSE])
    /\ ckpt = [h \in Hosts |-> 0]
    /\ clock = [h \in Hosts |-> 0]
    /\ InitProcs({})
    /\ TEGU_PORT = [h \in Hosts |-> DefaultPort]
    /\ \E a, b \in Hosts, tsA, tsB, clkA, clkB \in 0..MaxTs :
         /\ a # b
         /\ cmp = [NoCmp EXCEPT !.a = a, !.b = b, !.tsA = tsA, !.tsB = tsB,
                                !.clkA = clkA, !.clkB = clkB]

\* node a runs should_be_active(b), node b runs should_be_active(a)
Evaluate ==
    /\ ~cmp.done
    /\ cmp' = [cmp EXCEPT
         !.done = TRUE,
         !.onA = should_be_active(cmp.b, cmp.a,
                     GoodInputs(cmp.tsB, cmp.tsA, cmp.clkB, cmp.clkA)),
         !.onB = should_be_active(cmp.a, cmp.b,
                     GoodInputs(cmp.tsA, cmp.tsB, cmp.clkA, cmp.clkB))]
    /\ UNCHANGED <<standby_list, svc, ckpt, clock, pc, priority, peers,
                   loopvars, TEGU_PORT>>

NextCmp == Evaluate

SpecCmp == InitCmp /\ [][NextCmp]_vars

(* ---- SpecResolve: one call of should_be_active(host) on node fqdn, with
        every combination of succeeding and failing commands ---- *)
\* what `date +%s` can give: failure, something that is no number, a time
DateOutputs == {Failed, Ok(Junk)} \cup {Ok(t) : t \in 0..MaxTs}

\* what the listing of the remote checkpoint can give: failure, nothing, a
\* line of too few fields, a line whose date is none, a good line
TarOutputs ==
    {Failed, Ok(<<>>), Ok(<<Junk, Junk>>), Ok(<<Junk, Junk, Junk, Junk>>),
     Ok(TarLine(Junk))} \cup {Ok(TarLine(t)) : t \in 0..MaxTs}

\* the same for the listing of the local checkpoint
LsOutputs ==
    {Failed, Ok(<<>>), Ok(<<Junk, Junk>>),
     Ok(<<Junk, Junk, Junk, Junk, Junk, Junk>>),
     Ok(LsLine(Junk))} \cup {Ok(LsLine(t)) : t \in 0..MaxTs}

ResolveInputs ==
    [sync_r : BOOLEAN, sync_l : BOOLEAN,
     date_r : DateOutputs, date_l : DateOutputs,
     ts_r_s : TarOutputs, ts_l_s : LsOutputs]

InitResolve ==
    /\ standby_list = <<>>
    /\ svc = Installed([h \in Hosts |-> FALSE])
    /\ ckpt = [h \in Hosts |-> 0]
    /\ clock = [h \in Hosts |-> 0]
    /\ InitProcs({})
    /\ TEGU_PORT = [h \in Hosts |-> DefaultPort]
    /\ \E host, fqdn \in Hosts, in \in ResolveInputs :
         /\ host # fqdn
         /\ cmp = [host |-> host, fqdn |-> fqdn, in |-> in, done |-> FALSE,
                   res |-> Ret(FALSE), ran |-> <<>>]

\* node fqdn runs should_be_active(host)
Resolve ==
    /\ ~cmp.done
    /\ cmp' = [cmp EXCEPT
         !.done = TRUE,
         !.res = should_be_active(cmp.host, cmp.fqdn, cmp.in),
         !.ran = should_be_active_calls(cmp.in)]
    /\ UNCHANGED <<standby_list, svc, ckpt, clock, pc, priority, peers,
                   loopvars, TEGU_PORT>>

NextResolve == Resolve

SpecResolve == InitResolve /\ [][NextResolve]_vars

(* ---- SpecCtl: one call of deactivate_tegu(host) or activate_tegu(host)
        on node here, in any installation ---- *)
InitCtl ==
    /\ standby_list = <<>>
    /\ \E tegu \in [Hosts -> BOOLEAN] : svc = Installed(tegu)
    /\ ckpt = [h \in Hosts |-> 0]
    /\ clock = [h \in Hosts |-> 0]
    /\ InitProcs({})
    /\ TEGU_PORT = [h \in Hosts |-> DefaultPort]
    /\ \E op \in {"deactivate", "activate"}, here \in Hosts,
          host \in Hosts \cup {NoHost}, reach \in BOOLEAN :
         cmp = [op |-> op, here |-> here, host |-> host, reach |-> reach,
                before |-> svc, ret |-> FALSE, done |-> FALSE]

Call ==
    /\ ~cmp.done
    /\ LET r == IF cmp.op = "deactivate"
                THEN deactivate_tegu(svc, cmp.here, cmp.host, cmp.reach)
                ELSE activate_tegu(svc, cmp.here, cmp.host, cmp.reach)
       IN  /\ svc' = r.svc
           /\ cmp' = [cmp EXCEPT !.done = TRUE, !.ret = r.ret]
    /\ UNCHANGED <<standby_list, ckpt, clock, pc, priority, peers, loopvars,
                   TEGU_PORT>>

NextCtl == Call

SpecCtl == InitCtl /\ [][NextCtl]_vars

(* ---- SpecStart: one node starts tegu_ha with any standby list, also
        one that names it twice or not at all; nothing fails ---- *)
StartLists == UNION {[1..k -> Hosts] : k \in 0..MaxList}

InitStart ==
    /\ standby_list \in StartLists
    /\ \E tegu \in [Hosts -> BOOLEAN] : svc = Installed(tegu)
    /\ ckpt = [h \in Hosts |-> 0]
    /\ clock = [h \in Hosts |-> 0]
    /\ \E n \in Hosts : InitProcs({n})
    /\ TEGU_PORT = [h \in Hosts |-> DefaultPort]
    /\ cmp = NoCmp

NextStart == \E n \in Hosts : NodeStep(n, FALSE, TRUE)

SpecStart == InitStart /\ [][NextStart]_vars

(* ---- SpecExtract: one call of extract_dt on a line of any number of
        fields, with the columns should_be_active asks for ---- *)
\* a field is something that is no date or time, or a number of seconds
ExtractLines == UNION {[1..k -> {Junk, 0, 1}] : k \in 0..MaxFields}

\* the column pairs of lines 166 and 167
ExtractColumns == {<<3, 4>>, <<5, 6>>}

InitExtract ==
    /\ standby_list = <<>>
    /\ svc = Installed([h \in Hosts |-> FALSE])
    /\ ckpt = [h \in Hosts |-> 0]
    /\ clock = [h \in Hosts |-> 0]
    /\ InitProcs({})
    /\ TEGU_PORT = [h \in Hosts |-> DefaultPort]
    /\ \E str \in ExtractLines, cols \in ExtractColumns :
         cmp = [str |-> str, c1 |-> cols[1], c2 |-> cols[2],
                done |-> FALSE, res |-> RaiseInt("")]

Extract ==
    /\ ~cmp.done
    /\ cmp' = [cmp EXCEPT !.done = TRUE,
                          !.res = extract_dt(cmp.str, cmp.c1, cmp.c2)]
    /\ UNCHANGED <<standby_list, svc, ckpt, clock, pc, priority, peers,
                   loopvars, TEGU_PORT>>

NextExtract == Extract

SpecExtract == InitExtract /\ [][NextExtract]_vars

(* ------------------------------ claims -------------------------------- *)
\* the hosts whose tegu is running
Active == {h \in Hosts : svc.tegu[h]}

\* the order of the three hostnames "a" < "aa" < "b", written out
Rank(h) == IF h = HostA THEN 1 ELSE IF h = HostAA THEN 2 ELSE 3

\* the corrected remote timestamp node a computes for b's checkpoint
CorrectedB == cmp.tsB + (cmp.clkA - cmp.clkB)

\* C1: comparator symmetry.  For two distinct hostnames, any two checkpoint
\* timestamps and any skew, the decision of a about b and the decision of
\* b about a (which measures the opposite skew) are complementary: exactly
\* one of them says "remote should be active", also when the corrected
\* timestamps are equal.
C1_Symmetry ==
    cmp.done =>
        /\ cmp.onA.exc = "" /\ cmp.onB.exc = ""
        /\ cmp.onA.ret # cmp.onB.ret

\* C1 witness: both evaluations done on equal corrected timestamps, with a
\* skew that is not zero
C1_Witness ==
    /\ cmp.done
    /\ CorrectedB = cmp.tsA
    /\ cmp.clkA # cmp.clkB
    /\ cmp.onA.ret # cmp.onB.ret

\* C2: decision rule.  When syncs, clock reads and timestamp extractions
\* succeed, should_be_active(b) on node a is true iff b's timestamp plus
\* the skew (local clock minus remote clock) is greater than a's, or equal
\* to it with b < a as hostnames; a strictly newer corrected remote
\* timestamp gives true for every pair of hostnames.
C2_DecisionRule ==
    cmp.done =>
        /\ cmp.onA.exc = ""
        /\ cmp.onA.ret <=> \/ CorrectedB > cmp.tsA
                           \/ (CorrectedB = cmp.tsA /\ Rank(cmp.b) < Rank(cmp.a))

\* C2 witness: a strictly newer corrected remote timestamp, the remote
\* hostname being the greater one, and remote is chosen
C2_Witness ==
    /\ cmp.done
    /\ CorrectedB > cmp.tsA
    /\ cmp.tsB < cmp.tsA
    /\ Rank(cmp.a) < Rank(cmp.b)
    /\ cmp.onA = Ret(TRUE)

\* C4: from any combination of active and inactive tegus, a cluster whose
\* nodes all run tegu_ha without failures eventually reaches a state with
\* exactly one active tegu, when every node's loop keeps being scheduled.
C4_Convergence == <>(Cardinality(Active) = 1)

\* C4 witness: exactly one tegu is active, every node has polled, seen an
\* active tegu and gone back to sleep, and knows whether it is the one
C4_Witness ==
    /\ Cardinality(Active) = 1
    /\ \A h \in Hosts : /\ pc[h] = "sleep"
                        /\ any_active[h]
                        /\ i_am_active[h] <=> svc.tegu[h]

(* ---- claims about one node's loop ---- *)
\* node n has just finished a cycle: cyc[n] is the record of all of it
EndOfCycle(n) == pc[n] = "sleep" /\ cyc[n].probes # <<>>

ActivateSelf == [op |-> "activate", host |-> NoHost]
DeactivateSelf == [op |-> "deactivate", host |-> NoHost]

\* every node has finished at least one cycle
AllCycled ==
    \A n \in Nodes : prev[n].found # -1 \/ EndOfCycle(n)

\* the node of the pair that the comparison of both nodes keeps active
Winner ==
    CHOOSE w \in Nodes : \A l \in Nodes \ {w} :
        \/ ckpt[w] - clock[w] > ckpt[l] - clock[l]
        \/ (ckpt[w] - clock[w] = ckpt[l] - clock[l] /\ Rank(w) < Rank(l))

\* C3: two nodes, both active, both running the loop, nothing failing:
\* once both have completed their cycle exactly one tegu is active, and it
\* is the one both comparisons chose.
C3_SplitBrainResolved ==
    AllCycled => Active = {Winner}

\* C5: a cycle whose poll finds exactly one node active invokes no
\* should_be_active and issues no activate or deactivate, in Idle and in
\* WaitingPriority, whichever node is the active one.
C5_OneActiveNoAction ==
    \A n \in Hosts :
        (EndOfCycle(n) /\ Found(cyc[n]) = 1) =>
            (cyc[n].splits = <<>> /\ cyc[n].cmds = <<>>)

\* C5 witness: a cycle begun in WaitingPriority that found only a peer
\* active
C5_Witness ==
    \E n \in Hosts :
        /\ EndOfCycle(n) /\ Found(cyc[n]) = 1
        /\ cyc[n].pw0
        /\ ~cyc[n].probes[1].res
        /\ cyc[n].cmds = <<>>

\* C6: with priority 0, a cycle whose poll finds nothing active issues the
\* self-activation in that same cycle; the node is never in priority wait.
C6_PriorityZeroStartsAtOnce ==
    \A n \in Hosts :
        (pc[n] \notin {"off", "main", "exit"} /\ priority[n] = 0) =>
            /\ ~priority_wait[n]
            /\ ~cyc[n].pw0
            /\ (EndOfCycle(n) /\ Found(cyc[n]) = 0) =>
                   cyc[n].cmds = <<ActivateSelf>>

\* C6 witness: the priority-0 node started tegu in its first cycle
C6_Witness ==
    \E n \in Hosts :
        /\ priority[n] = 0 /\ EndOfCycle(n) /\ Found(cyc[n]) = 0
        /\ prev[n].found = -1
        /\ cyc[n].cmds = <<ActivateSelf>>
        /\ svc.tegu[n]

\* C7: with priority p >= 1 and the loop in Idle, a poll that finds
\* nothing active issues no command and sets priority_wait; the sleep
\* before the next poll is p * PRI_WAIT_SEC; if that poll finds nothing
\* active either, the node activates itself and is back in Idle.
C7_BackoffStep ==
    \A n \in Hosts :
        (pc[n] \notin {"off", "main", "exit"} /\ priority[n] >= 1) =>
            /\ (EndOfCycle(n) /\ ~cyc[n].pw0 /\ Found(cyc[n]) = 0) =>
                   (cyc[n].cmds = <<>> /\ priority_wait[n])
            /\ (prev[n].found = 0 /\ ~prev[n].pw0 /\ cyc[n].probes # <<>>) =>
                   (cyc[n].pw0 /\ slept[n] = priority[n] * PRI_WAIT_SEC)
            /\ (prev[n].found = 0 /\ ~prev[n].pw0 /\ EndOfCycle(n)
                    /\ Found(cyc[n]) = 0) =>
                   (cyc[n].cmds = <<ActivateSelf>> /\ ~priority_wait[n])

\* C7 witness: the node of priority 2 slept 10 seconds after an idle poll
\* that found nothing, found nothing again and started tegu
C7_Witness ==
    \E n \in Hosts :
        /\ priority[n] = 2
        /\ prev[n].found = 0 /\ ~prev[n].pw0
        /\ EndOfCycle(n) /\ Found(cyc[n]) = 0
        /\ slept[n] = 2 * PRI_WAIT_SEC
        /\ cyc[n].cmds = <<ActivateSelf>>
        /\ svc.tegu[n]

\* C8: with priority p >= 1 every self-activation comes after at least
\* p * PRI_WAIT_SEC seconds that began at a poll which found nothing active
\* and in which no poll found a node active.
C8_MinimumBackoff ==
    \A n \in Hosts :
        (priority[n] >= 1 /\ EndOfCycle(n)
             /\ ActivateSelf \in Range(cyc[n].cmds)) =>
            quiet[n] >= priority[n] * PRI_WAIT_SEC

\* C9: whenever a cycle's poll finds exactly one node active the loop is in
\* Idle at the end of the cycle and the next sleep is one heartbeat, also
\* when the cycle began in WaitingPriority.
C9_ReturnToIdle ==
    \A n \in Hosts :
        /\ (EndOfCycle(n) /\ Found(cyc[n]) = 1) => ~priority_wait[n]
        /\ (prev[n].found = 1 /\ cyc[n].probes # <<>>) =>
               slept[n] = HEARTBEAT_SEC

\* C10: when should_be_active says the peer should be active, the loop
\* deactivates this node's tegu and sends the peer no stop command; for
\* the peers later in the list it invokes no should_be_active and issues
\* no deactivation in that cycle, even if one is probed active.
C10_KeepRemote ==
    \A n \in Hosts :
        \A k \in 1..Len(cyc[n].splits) :
            (cyc[n].splits[k].res = Ret(TRUE)) =>
                /\ k = Len(cyc[n].splits)
                /\ Len(cyc[n].cmds) = k
                /\ cyc[n].cmds[k] = DeactivateSelf
                /\ \A j \in 1..Len(cyc[n].cmds) :
                       cyc[n].cmds[j].host # cyc[n].splits[k].host
                /\ \A st \in Range(DeactivateSteps[n, cyc[n].cmds[k].host]) :
                       st.at = n

\* C10 witness: a finished cycle in which the first peer was kept and the
\* second peer, probed active after that, was left alone
C10_Witness ==
    \E n \in Hosts :
        /\ EndOfCycle(n)
        /\ Len(cyc[n].probes) = 3
        /\ \A i \in 1..3 : cyc[n].probes[i].res
        /\ Len(cyc[n].splits) = 1
        /\ cyc[n].splits[1].res = Ret(TRUE)
        /\ cyc[n].splits[1].host = cyc[n].probes[2].host
        /\ cyc[n].cmds = <<DeactivateSelf>>

(* ---- conflict detection ---- *)
\* the peers a cycle probed active, in the order of the probes
IsUp(p) == p.res
PeersUp(c) == SelectSeq(Tail(c.probes), IsUp)

\* C11 as stated: every cycle whose poll finds more than one node active
\* among this node and its peers runs should_be_active, also when this node
\* is not active and two or more peers are.
C11_ConflictDetection ==
    \A n \in Hosts :
        (EndOfCycle(n) /\ Found(cyc[n]) > 1) => cyc[n].splits # <<>>

\* C11 amended: should_be_active is run exactly when this node was probed
\* active and a peer is probed active: for every such peer in list order up
\* to the first one it says should be active; a cycle that probed this node
\* inactive runs none, however many peers it found active.
C11_ConflictWithSelf ==
    \A n \in Hosts :
        EndOfCycle(n) =>
            LET c == cyc[n]
                up == PeersUp(c)
                k == Len(c.splits)
            IN  IF ~c.probes[1].res THEN c.splits = <<>>
                ELSE /\ k <= Len(up)
                     /\ \A j \in 1..k : c.splits[j].host = up[j].host
                     /\ \A j \in 1..(k - 1) : c.splits[j].res = Ret(FALSE)
                     /\ k < Len(up) => c.splits[k].res = Ret(TRUE)

\* C11 witness: a finished cycle that probed this node and both peers
\* active and ran should_be_active for both peers
C11_Witness ==
    \E n \in Hosts :
        /\ EndOfCycle(n)
        /\ cyc[n].probes[1].res
        /\ Len(PeersUp(cyc[n])) = 2
        /\ Len(cyc[n].splits) = 2

(* ---- claims about one call of should_be_active ---- *)
KeepSelf == Ret(FALSE)
KeepRemote == Ret(TRUE)

\* a clock reading that gives no number: the command fails or prints
\* something else
NoReading(d) == d.rc # 0 \/ d.out = Junk

\* a listing line from which date and time can be taken
Parses(o, c1, c2) ==
    /\ o.rc = 0
    /\ Len(o.out) > c2
    /\ o.out[c1 + 1] # Junk
    /\ o.out[c2 + 1] # Junk

\* C12: should_be_active pulls the remote checkpoints first and returns
\* keepSelf when that fails, without pulling the local ones, reading a
\* clock or comparing; when the remote pull succeeds and the local pull
\* fails it returns keepRemote; when both would fail the result is keepSelf.
C12_SyncFailures ==
    cmp.done =>
        /\ ~cmp.in.sync_r =>
               (cmp.res = KeepSelf /\ cmp.ran = <<"sync_r">>)
        /\ (cmp.in.sync_r /\ ~cmp.in.sync_l) =>
               (cmp.res = KeepRemote /\ cmp.ran = <<"sync_r", "sync_l">>)

\* C12 witness: a call in which both pulls would fail, answered keepSelf
\* after the remote pull alone
C12_Witness ==
    /\ cmp.done
    /\ ~cmp.in.sync_r /\ ~cmp.in.sync_l
    /\ cmp.res = KeepSelf
    /\ cmp.ran = <<"sync_r">>

\* C13: when both pulls succeed and the remote or the local clock reading
\* cannot be obtained (the command fails or gives no number),
\* should_be_active returns keepSelf: no exception leaves it and nothing is
\* compared.
C13_SkewFailure ==
    (cmp.done /\ cmp.in.sync_r /\ cmp.in.sync_l
         /\ (NoReading(cmp.in.date_r) \/ NoReading(cmp.in.date_l))) =>
        /\ cmp.res = KeepSelf
        /\ \A i \in 1..Len(cmp.ran) : cmp.ran[i] # "compare"

\* C20: should_be_active returns keepRemote only if the remote pull
\* succeeded and the local one failed, or if both pulls, both clock
\* readings and both extractions of date and time succeeded and the
\* comparison says remote; a line whose date or time does not parse, on
\* either side, leads to keepSelf.
C20_KeepRemoteEvidence ==
    (cmp.done /\ cmp.res = KeepRemote) =>
        \/ (cmp.in.sync_r /\ ~cmp.in.sync_l)
        \/ /\ cmp.in.sync_r /\ cmp.in.sync_l
           /\ ~NoReading(cmp.in.date_r) /\ ~NoReading(cmp.in.date_l)
           /\ Parses(cmp.in.ts_r_s, 3, 4) /\ Parses(cmp.in.ts_l_s, 5, 6)
           /\ Compare(cmp.in.ts_r_s.out[4] + cmp.in.ts_r_s.out[5],
                      cmp.in.ts_l_s.out[6] + cmp.in.ts_l_s.out[7],
                      cmp.in.date_l.out - cmp.in.date_r.out,
                      cmp.host, cmp.fqdn)

(* ---- claims about failures inside the loop ---- *)
\* a call of should_be_active whose pulls and clock readings succeeded and
\* whose listing of the remote or of the local checkpoints printed nothing
NoCheckpoint(in) ==
    /\ in.sync_r /\ in.sync_l
    /\ ~NoReading(in.date_r) /\ ~NoReading(in.date_l)
    /\ in.ts_r_s.rc = 0 /\ in.ts_l_s.rc = 0
    /\ (in.ts_r_s.out = <<>> \/ in.ts_l_s.out = <<>>)

\* C14: when pulls and skew succeed and the remote or the local listing
\* yields no checkpoint (empty output), should_be_active returns keepSelf,
\* and the loop deactivates that peer and goes on.
C14_MissingCheckpoint ==
    \A n \in Hosts :
        \A k \in 1..Len(cyc[n].splits) :
            NoCheckpoint(cyc[n].splits[k].in) =>
                /\ cyc[n].splits[k].res = KeepSelf
                /\ Len(cyc[n].cmds) >= k
                /\ cyc[n].cmds[k] = [op |-> "deactivate",
                                     host |-> cyc[n].splits[k].host]
                /\ pc[n] # "crashed"

\* C15: once main has found this node in the standby list the loop never
\* ends: whatever probes, pulls, clock readings, listings and activate or
\* deactivate commands give, every cycle is followed by another.
C15_LoopNeverEnds ==
    \A n \in Hosts :
        \/ pc[n] \in {"off", "main", "exit"}
        \/ ENABLED NodeStep(n, TRUE, TRUE)

(* ---- claims about activate_tegu and deactivate_tegu ---- *)
\* the node a call is meant for
Target == IF cmp.host = NoHost THEN cmp.here ELSE cmp.host

\* C16: deactivate_tegu for a node whose tegu is already inactive returns
\* True, activate_tegu for a node whose tegu is already active returns
\* True, and in both cases the node is as active as it was.
C16_Idempotency ==
    (cmp.done /\ cmp.reach) =>
        /\ (cmp.op = "deactivate" /\ ~cmp.before.tegu[Target]) =>
               (cmp.ret /\ ~svc.tegu[Target])
        /\ (cmp.op = "activate" /\ cmp.before.tegu[Target]) =>
               (cmp.ret /\ svc.tegu[Target])

\* C19: deactivate_tegu(host) for a remote host runs standby on, kill tegu
\* and kill agent on that host through ssh and nothing on this node; so in
\* a cycle in which should_be_active says keepSelf every command of the
\* deactivation leaves this node's tegu, agent and standby file as they
\* were, and the kill of tegu leaves the peer's tegu stopped.
C19_RemoteDeactivation ==
    [][\A n \in Hosts :
         (/\ pc[n] = "deactivate" /\ ~host_active[n]
          /\ sh'[n] # sh[n]) =>
             LET host == peers[n][idx[n]]
                 st == Head(sh[n].steps)
             IN
             /\ st.at = host /\ st.ssh
             /\ st.c = "killall_tegu" => ~svc'.tegu[host]
             /\ svc'.tegu[n] = svc.tegu[n]
             /\ svc'.agent[n] = svc.agent[n]
             /\ svc'.standby[n] = svc.standby[n]]_vars

(* ---- claims about main ---- *)
\* how often host n is in the standby list
Count(n) == Cardinality({i \in DOMAIN standby_list : standby_list[i] = n})

\* the first line of the standby list that is n
First(n) ==
    CHOOSE i \in DOMAIN standby_list :
        /\ standby_list[i] = n
        /\ \A j \in 1..(i - 1) : standby_list[j] # n

\* the standby list without line i
Without(i) ==
    SubSeq(standby_list, 1, i - 1)
        \o SubSeq(standby_list, i + 1, Len(standby_list))

\* main has run on node n
Started(n) == pc[n] \notin {"off", "main"}

\* nothing of main_loop has run on node n
NeverLooped(n) ==
    /\ cyc[n] = NoCycle /\ prev[n] = NoPrev /\ slept[n] = 0
    /\ peers[n] = <<>>

\* C17: when the standby list holds this node exactly once, startup
\* succeeds, priority is the 0-based position of the node in the list and
\* the loop gets the list without the node, the others in their order; when
\* the node is not in the list the process exits and the loop never runs.
C17_StartupPriority ==
    \A n \in Hosts :
        Started(n) =>
            /\ Count(n) = 1 =>
                   /\ pc[n] # "exit"
                   /\ priority[n] = First(n) - 1
                   /\ peers[n] = Without(First(n))
                   /\ \A i \in DOMAIN peers[n] : peers[n][i] # n
            /\ Count(n) = 0 => (pc[n] = "exit" /\ NeverLooped(n))

\* C17 witness: the node on the last of three lines has finished a cycle
\* in which it probed the two others in the order of the list
C17_Witness ==
    \E n \in Hosts :
        /\ Len(standby_list) = 3 /\ Count(n) = 1
        /\ priority[n] = 2
        /\ EndOfCycle(n)
        /\ Len(cyc[n].probes) = 3
        /\ cyc[n].probes[2].host = standby_list[1]
        /\ cyc[n].probes[3].host = standby_list[2]

\* C18 as stated: when the standby list holds this node more than once,
\* startup fails as it does when the node is absent, and the loop never
\* runs.
C18_UniquenessCheck ==
    \A n \in Hosts :
        (Started(n) /\ Count(n) > 1) => (pc[n] = "exit" /\ NeverLooped(n))

\* C18 amended: startup fails only when the node is absent from the list;
\* when the list holds it more than once the loop runs with the position of
\* the first occurrence as priority and the list without that occurrence
\* as peers, and skips the other occurrences when it polls.
C18_DuplicatesTolerated ==
    \A n \in Hosts :
        Started(n) =>
            /\ pc[n] = "exit" <=> Count(n) = 0
            /\ Count(n) > 1 =>
                   /\ priority[n] = First(n) - 1
                   /\ peers[n] = Without(First(n))
                   /\ \A i \in DOMAIN cyc[n].probes :
                          cyc[n].probes[i].host # n

\* C18 witness: a node named on the first and the last of three lines has
\* finished a cycle with priority 0, probing itself and the one peer
C18_Witness ==
    \E n \in Hosts :
        /\ Len(standby_list) = 3
        /\ standby_list[1] = n /\ standby_list[3] = n /\ standby_list[2] # n
        /\ priority[n] = 0
        /\ peers[n] = <<standby_list[2], n>>
        /\ EndOfCycle(n)
        /\ Len(cyc[n].probes) = 2

(* ---- claims about extract_dt ---- *)
\* date and time can be taken from columns c1 and c2 of the line
HasDateTime(str, c1, c2) ==
    /\ Len(str) > c2
    /\ str[c1 + 1] # Junk
    /\ str[c2 + 1] # Junk

\* C21: extract_dt is total.  For every line, also an empty one and one
\* with fewer fields than the date and time columns asked for, it returns
\* an integer, 0 when date and time cannot be parsed, and raises nothing.
C21_ExtractTotal ==
    cmp.done =>
        /\ cmp.res.exc = ""
        /\ ~HasDateTime(cmp.str, cmp.c1, cmp.c2) => cmp.res.ret = 0

(* ---- claims about the commands and probes of one cycle ---- *)
\* the commands of a cycle that are deactivations
Deactivations(c) == {j \in DOMAIN c.cmds : c.cmds[j].op = "deactivate"}

\* the peers main_loop probes: the list main passed without this node
PeersOf(n) == SelectSeq(peers[n], LAMBDA h : h # n)

\* C22: no cycle issues both a deactivation and a self-activation; the
\* self-activation comes only in a cycle in which the probe of this node
\* and the probe of every peer said inactive, the deactivation of a peer
\* only in a cycle that probed this node active, and the deactivation of
\* this node at most once in a cycle.
C22_CommandsExclusive ==
    \A n \in Hosts :
        LET c == cyc[n] IN
        /\ ~(Deactivations(c) # {} /\ ActivateSelf \in Range(c.cmds))
        /\ ActivateSelf \in Range(c.cmds) =>
               /\ Len(c.probes) = 1 + Len(PeersOf(n))
               /\ \A i \in DOMAIN c.probes : ~c.probes[i].res
        /\ \A j \in Deactivations(c) :
               c.cmds[j].host # NoHost => c.probes[1].res
        /\ Cardinality({j \in DOMAIN c.cmds : c.cmds[j] = DeactivateSelf})
               <= 1

\* C22 witness: a finished cycle that deactivated the first peer and then,
\* for the second peer, this node, and started nothing
C22_Witness ==
    \E n \in Hosts :
        /\ EndOfCycle(n)
        /\ Len(cyc[n].cmds) = 2
        /\ cyc[n].cmds[1].op = "deactivate" /\ cyc[n].cmds[1].host # NoHost
        /\ cyc[n].cmds[2] = DeactivateSelf
        /\ \A i \in 1..3 : cyc[n].probes[i].res

\* the hosts a cycle has probed so far, in the order of the probes
ProbedHosts(c) == [i \in DOMAIN c.probes |-> c.probes[i].host]

\* the probes of a whole cycle: this node, then the peers in list order
ProbeOrder(n) == <<localhost>> \o PeersOf(n)

\* node n is in a cycle past the probe of itself, or has just finished one
Polling(n) ==
    /\ pc[n] \notin {"off", "main", "exit", "poll"}
    /\ cyc[n].probes # <<>>

\* deactivate_tegu is running for the should_be_active call k of the cycle
Deactivating(n, k) == pc[n] = "deactivate" /\ k = Len(cyc[n].splits)

\* C23: every cycle probes this node once, first, and then every peer once
\* in the order of the standby list, whether or not earlier probes failed
\* and whether or not this node was deactivated earlier in the cycle; what
\* the loop decides on is what the probes of this cycle said.
C23_ProbeDiscipline ==
    \A n \in Hosts :
        Polling(n) =>
            LET c == cyc[n] IN
            /\ Len(c.probes) <= Len(ProbeOrder(n))
            /\ ProbedHosts(c) = SubSeq(ProbeOrder(n), 1, Len(c.probes))
            /\ (pc[n] = "decide" \/ EndOfCycle(n)) =>
                   ProbedHosts(c) = ProbeOrder(n)
            /\ any_active[n] <=> Found(c) > 0
            /\ i_am_active[n] <=>
                   /\ c.probes[1].res
                   /\ \A k \in DOMAIN c.splits :
                          c.splits[k].res # KeepRemote \/ Deactivating(n, k)

\* C23 witness: a finished cycle that deactivated this node at the first
\* peer and went on to probe the second peer, which did not answer, after
\* a cycle that had found one tegu active
C23_Witness ==
    \E n \in Hosts :
        /\ EndOfCycle(n)
        /\ prev[n].found = 1
        /\ ProbedHosts(cyc[n]) = ProbeOrder(n)
        /\ Len(cyc[n].probes) = 3
        /\ cyc[n].probes[1].res /\ cyc[n].probes[2].res
        /\ ~cyc[n].probes[3].res
        /\ cyc[n].cmds = <<DeactivateSelf>>
        /\ ~i_am_active[n]

=============================================================================
